---- MODULE Spec2Model ----
(***************************************************************************)
(* PlotContainer (src/src/components/plot-container.js): the off-screen    *)
(* export surface of the map application.  The component renders one map   *)
(* view per pane, listens to their render-completion signals through a     *)
(* debounced callback, captures the container with convertToPng and        *)
(* reports the result through the caller's callbacks.                      *)
(*                                                                         *)
(* JavaScript values.  An optional value (a prop or field that may be      *)
(* undefined) is a sequence of length at most one: <<>> is undefined and   *)
(* <<v>> is v.  A number that may be fractional is a record [n, d] read    *)
(* as n / d with d >= 0: [n |-> 0, d |-> 0] is NaN and [n |-> 1, d |-> 0]  *)
(* is Infinity.                                                            *)
(*                                                                         *)
(* Environment.  The callbacks the caller supplies (setExportingImage,     *)
(* setExportImageDataUri, setExportImageError, addNotification) return     *)
(* normally; lodash.debounce is the trailing-edge debounce of its          *)
(* documentation; React attaches the ref before it runs the effects and    *)
(* clears it on unmount.                                                   *)
(***************************************************************************)
EXTENDS Integers, Sequences, FiniteSets, TLC

\* ------------------------------------------------------------- bounds
MaxDim == 2            \* imageW and imageH range over -1 .. MaxDim
MaxNum == 2            \* numerators of scales range over -1 .. MaxNum
MaxDen == 2            \* denominators of scales range over 0 .. MaxDen
MaxPanes == 3          \* splitMaps has at most MaxPanes entries
MaxRenders == 2        \* renders of one component instance
MaxAttempts == 3       \* convertToPng calls of one component instance
TicksPerDelay == 2     \* clock steps in one debounce delay

\* --------------------------------------------------- program constants
DEBOUNCE_DELAY_MS == 500

TickMs == DEBOUNCE_DELAY_MS \div TicksPerDelay

\* ------------------------------------------------------ JavaScript values
Undefined == <<>>
Some(v) == <<v>>
Opt(S) == {Undefined} \cup {Some(v) : v \in S}

Rat(n, d) == [n |-> n, d |-> d]
One == Rat(1, 1)
Rats == {Rat(n, d) : n \in (0 - 1) .. MaxNum, d \in 0 .. MaxDen}
IsNaN(r) == r.n = 0 /\ r.d = 0
\* r > 0 and r >= 1 as JavaScript compares numbers (false for NaN)
GtZero(r) == r.n > 0
GeOne(r) == r.n > 0 /\ r.n >= r.d
\* the truthiness of a number: not 0 and not NaN
TruthyRat(r) == r.n # 0
\* the truthiness of an optional integer: defined and not 0
TruthyInt(o) == o # Undefined /\ o[1] # 0

Dims == Opt((0 - 1) .. MaxDim)
ImageSizes == [imageW : Dims, imageH : Dims, scale : Opt(Rats)]
Layers == {"layersA", "layersB"}
SplitMapsOf(n) == [1 .. n -> [layers : Layers]]
AllSplitMaps == Opt(UNION {SplitMapsOf(n) : n \in 0 .. MaxPanes})
MapStates == [width : {800}, height : {600}, isSplit : BOOLEAN]
Ratios == {"SCREEN", "FOUR_BY_THREE"}
Resolutions == {"ONE_X", "TWO_X"}
Settings == [ratio : Ratios, resolution : Resolutions, legend : BOOLEAN]

\* ------------------------------------------------------------ the props
\* exportImageSetting {imageSize, legend, ratio, resolution}, mapFields
\* {mapState} and splitMaps, as one record
Props(imageSizes, mapStates, splitMapss) ==
    [ratio : Ratios, resolution : Resolutions, legend : BOOLEAN,
     imageSize : imageSizes, mapState : mapStates, splitMaps : splitMapss]

settingsOf(p) == [ratio |-> p.ratio, resolution |-> p.resolution, legend |-> p.legend]

\* ------------------------------------------------------- derived values
\* const {imageSize = {}, ...} = exportImageSetting
DefaultImageSize == [imageW |-> Undefined, imageH |-> Undefined, scale |-> Undefined]
imageSizeOf(p) == IF p.imageSize = Undefined THEN DefaultImageSize ELSE p.imageSize[1]

\* (a variant of isSplit: split as soon as splitMaps has an entry)
isSplitAny(splitMaps) == splitMaps # Undefined /\ Len(splitMaps[1]) > 0

\* splitMaps && splitMaps.length > 1
isSplit(splitMaps) == splitMaps # Undefined /\ Len(splitMaps[1]) > 1

\* (a variant of size: no default, an absent or zero dimension is 0)
sizeNoDefault(imageSize) ==
    [width  |-> IF TruthyInt(imageSize.imageW) THEN imageSize.imageW[1] ELSE 0,
     height |-> IF TruthyInt(imageSize.imageH) THEN imageSize.imageH[1] ELSE 0]

\* {width: imageSize.imageW || 1, height: imageSize.imageH || 1}
size(imageSize) ==
    [width  |-> IF TruthyInt(imageSize.imageW) THEN imageSize.imageW[1] ELSE 1,
     height |-> IF TruthyInt(imageSize.imageH) THEN imageSize.imageH[1] ELSE 1]

\* utils/export-utils is not part of the sources: a pure function returning
\* a numeric ratio; the value it returns for these arguments is ret
getScaleFromImageSize(imageW, imageH, mapW, mapH, ret) == ret

\* (a variant of scale: tmpScale >= 0 in place of tmpScale > 0)
scaleNonNegative(imageSize, mapState, ret) ==
    IF imageSize.scale # Undefined /\ TruthyRat(imageSize.scale[1])
    THEN imageSize.scale[1]
    ELSE IF ret.n >= 0 /\ ~IsNaN(ret) THEN ret ELSE One

scale(imageSize, mapState, ret) ==
    IF imageSize.scale # Undefined /\ TruthyRat(imageSize.scale[1])
    THEN imageSize.scale[1]
    ELSE LET tmpScale == getScaleFromImageSize(
                             imageSize.imageW, imageSize.imageH,
                             mapState.width * (IF mapState.isSplit THEN 2 ELSE 1),
                             mapState.height, ret)
         IN  IF GtZero(tmpScale) THEN tmpScale ELSE One

\* The props every map view receives.  onMapRender is the debounced function
\* of the render that built them, named by the number of that render.  The
\* style rescaling and the zoom shift (both functions of scale) are kept as
\* the scale they are computed from.
mapProps(p, sc, sz, split, render) ==
    [mapState    |-> [width  |-> Rat(sz.width, IF split THEN 2 ELSE 1),
                      height |-> sz.height],
     styleScale  |-> sc,
     mapLegend   |-> [show |-> p.legend, active |-> TRUE],
     onMapRender |-> render,
     isExport    |-> TRUE]

\* one <MapContainer> if not split, else one per entry of splitMaps
mapContainers(mp, splitMaps, split) ==
    IF ~split
    THEN << [index |-> 0, mapLayers |-> Undefined, props |-> mp] >>
    ELSE [i \in 1 .. Len(splitMaps[1]) |->
             [index |-> i - 1, mapLayers |-> Some(splitMaps[1][i].layers), props |-> mp]]

\* ------------------------------------------------------------ the state
VARIABLES
    phase,          \* "init" (constructed), "mounted", "unmounted"
    props,          \* the props of the last render
    plottingAreaRef,\* plottingAreaRef.current: "undefined", "node" or "null"
    renderCount,    \* renders so far
    memoSize,       \* useMemo: size
    memoScale,      \* useMemo: scale
    scaleRet,       \* what getScaleFromImageSize returned when scale was last computed
    memoContainers, \* useMemo: mapContainers
    debounced,      \* debounced[r]: the debounced onMapRender render r created
    styleLoaded,    \* styleLoaded[i]: map.isStyledLoaded() of the map of pane i
    calls,          \* the calls made: setExportingImage (a count), convertToPng (the attempts)
    lastDelivered,  \* the attempt whose result reached a setter last (0: none)
    sinceSignal     \* ms since the last render-completion signal, up to the delay

vars == <<phase, props, plottingAreaRef, renderCount, memoSize, memoScale, scaleRet,
          memoContainers, debounced, styleLoaded, calls, lastDelivered, sinceSignal>>

Min(a, b) == IF a < b THEN a ELSE b
PaneIndexes == 0 .. MaxPanes - 1

\* ------------------------------------------------------------ callbacks
setExportingImage(c) == [c EXCEPT !.setExportingImage = @ + 1]

\* utils/notifications-utils is not part of the sources: the descriptor of
\* an export-image error notification, built from the error
exportImageError(err) == [type |-> "error", topic |-> "export image", err |-> err]

\* convertToPng(plottingAreaRef.current, {filter}): a new pending promise.
\* The image it can resolve to is the picture of what the container shows:
\* the settings of the render on screen when it is called.
\* cause is the caller ("effect" or "render") and mapLoaded what the map the
\* caller consulted reported (Undefined: it consulted none).
convertToPng(c, cause, mapLoaded, shown) ==
    [c EXCEPT !.convertToPng = Append(@,
        [cause |-> cause, mapLoaded |-> mapLoaded, shown |-> shown,
         promise |-> "pending", chain |-> "pending",
         dataUri |-> <<>>, errors |-> <<>>, notifications |-> <<>>])]

\* (a variant of retrieveNewScreenShot: the capture without setExportingImage)
retrieveNewScreenShotSilent(c, ref, cause, mapLoaded, shown) ==
    IF ref = "node" THEN convertToPng(c, cause, mapLoaded, shown) ELSE c

retrieveNewScreenShot(c, ref, cause, mapLoaded, shown) ==
    IF ref = "node"
    THEN convertToPng(setExportingImage(c), cause, mapLoaded, shown)
    ELSE c

\* convertToPng(...).then(setExportImageDataUri).catch(err => {...}) once the
\* promise of attempt a settles: outcome "fulfilled" with the image v, or
\* "rejected" with the error v.  chain is the promise .catch returns.
\* (a variant of settle: the error handler runs after a success too)
settleAlways(a, outcome, v) ==
    IF outcome = "fulfilled"
    THEN [a EXCEPT !.promise = "fulfilled", !.dataUri = Append(@, v),
                   !.errors = Append(@, v),
                   !.notifications = Append(@, exportImageError(v)),
                   !.chain = "fulfilled"]
    ELSE [a EXCEPT !.promise = "rejected", !.errors = Append(@, v),
                   !.notifications = Append(@, exportImageError(v)),
                   !.chain = "fulfilled"]

\* (a variant of settle: a failure reaches setExportImageError only)
settleNoNotification(a, outcome, v) ==
    IF outcome = "fulfilled"
    THEN [a EXCEPT !.promise = "fulfilled", !.dataUri = Append(@, v), !.chain = "fulfilled"]
    ELSE [a EXCEPT !.promise = "rejected", !.errors = Append(@, v), !.chain = "fulfilled"]

settle(a, outcome, v) ==
    IF outcome = "fulfilled"
    THEN [a EXCEPT !.promise = "fulfilled", !.dataUri = Append(@, v), !.chain = "fulfilled"]
    ELSE [a EXCEPT !.promise = "rejected", !.errors = Append(@, v),
                   !.notifications = Append(@, exportImageError(v)),
                   !.chain = "fulfilled"]

\* (a variant of deliver: the result of an attempt that is no longer the
\* last one started is dropped)
deliverLatestOnly(c, k, outcome, v) ==
    IF k = Len(c.convertToPng)
    THEN [c EXCEPT !.convertToPng[k] = settle(@, outcome, v)]
    ELSE [c EXCEPT !.convertToPng[k].promise = outcome, !.convertToPng[k].chain = "fulfilled"]

\* The result of attempt k reaches the callbacks, whatever other attempts
\* were started or delivered meanwhile.
deliver(c, k, outcome, v) == [c EXCEPT !.convertToPng[k] = settle(@, outcome, v)]

\* debounce(func, DEBOUNCE_DELAY_MS): a call (re)starts the timer and keeps
\* its argument; func runs with the last argument when the timer runs out
\* (invoked: func has run, lodash's lastInvokeTime)
Idle == [armed |-> FALSE, remaining |-> 0, lastArgs |-> Undefined, invoked |-> FALSE]
debouncedCall(d, map) ==
    [d EXCEPT !.armed = TRUE, !.remaining = DEBOUNCE_DELAY_MS, !.lastArgs = Some(map)]
trailingEdge(d) ==
    [d EXCEPT !.armed = FALSE, !.remaining = 0, !.lastArgs = Undefined, !.invoked = TRUE]

\* (a variant of the callback: no isStyledLoaded check)
onMapRenderCallbackUnchecked(c, ref, map, shown) ==
    retrieveNewScreenShot(c, ref, "render", Some(styleLoaded[map]), shown)

\* the callback onMapRender debounces: map => {if (map.isStyledLoaded()) ...}
onMapRenderCallback(c, ref, map, shown) ==
    IF styleLoaded[map]
    THEN retrieveNewScreenShot(c, ref, "render", Some(styleLoaded[map]), shown)
    ELSE c

\* --------------------------------------------------------------- render
\* The props the orchestration is explored with, and the props the derived
\* values are explored with.
SpecImageSizes == {Undefined,
                   Some([imageW |-> Some(MaxDim), imageH |-> Some(1), scale |-> Undefined])}
SpecSplitMaps == {Undefined, Some([i \in 1 .. 2 |-> [layers |-> "layersA"]])}
SpecMapStates == {[width |-> 800, height |-> 600, isSplit |-> FALSE]}
\* the export settings the orchestration is explored with: the first ones,
\* and each of legend, ratio and resolution changed
FirstSettings == [ratio |-> "SCREEN", resolution |-> "ONE_X", legend |-> FALSE]
SpecSettings == {s \in Settings :
                    Cardinality({f \in {"ratio", "resolution", "legend"} :
                        s[f] # FirstSettings[f]}) <= 1}
SpecProps == {p \in Props(SpecImageSizes, SpecMapStates, SpecSplitMaps) :
                 /\ settingsOf(p) \in SpecSettings
                 /\ (p.imageSize = Undefined) = (p.splitMaps = Undefined)}
SpecRets == {Rat(1, MaxDen), Rat(0, 1)}

DeriveProps ==
    {p \in Props(Opt(ImageSizes), MapStates, SpecSplitMaps) :
        settingsOf(p) = FirstSettings}
    \cup
    {p \in Props(SpecImageSizes, MapStates, AllSplitMaps) :
        settingsOf(p) = FirstSettings}

\* useMemo(scale, [imageSize, mapState]): computed on the first render and
\* when a dependency is another object; the default {} of a missing
\* imageSize is a new object on every render
scaleDepsChanged(p, first) ==
    \/ first
    \/ p.imageSize = Undefined
    \/ p.imageSize # props.imageSize
    \/ p.mapState # props.mapState

usesGetScale(p) ==
    ~(imageSizeOf(p).scale # Undefined /\ TruthyRat(imageSizeOf(p).scale[1]))

\* One run of the component function with props p, as render number r:
\* the memoised values and a new debounced onMapRender.
Render(p, r, ret) ==
    LET first == r = 1
        newScale == IF scaleDepsChanged(p, first)
                    THEN scale(imageSizeOf(p), p.mapState, ret)
                    ELSE memoScale[1]
        split == isSplit(p.splitMaps)
        sz == size(imageSizeOf(p))
    IN  /\ props' = p
        /\ renderCount' = r
        /\ memoSize' = Some(sz)
        /\ memoScale' = Some(newScale)
        /\ scaleRet' = IF scaleDepsChanged(p, first)
                       THEN (IF usesGetScale(p) THEN Some(ret) ELSE Undefined)
                       ELSE scaleRet
        /\ memoContainers' = Some(mapContainers(mapProps(p, newScale, sz, split, r),
                                                p.splitMaps, split))
        /\ debounced' = Append(debounced, Idle)

\* the values getScaleFromImageSize may return in a render with props p
RetsFor(p, first, rets) ==
    IF scaleDepsChanged(p, first) /\ usesGetScale(p) THEN rets ELSE {One}

\* ------------------------------------------------------------- actions
\* Mount: the first render, the ref attached, then the two effects in order:
\* useEffect(() => setExportingImage(), []) and
\* useEffect(() => retrieveNewScreenShot(), [ratio, resolution, legend])
MountEffects(c, ref, shown) ==
    retrieveNewScreenShot(setExportingImage(c), ref, "effect", Undefined, shown)

MountWith(rets) ==
    /\ phase = "init"
    /\ \E ret \in RetsFor(props, TRUE, rets) : Render(props, 1, ret)
    /\ phase' = "mounted"
    /\ plottingAreaRef' = "node"
    /\ calls' = MountEffects(calls, "node", settingsOf(props))
    /\ UNCHANGED <<styleLoaded, lastDelivered, sinceSignal>>

Mount == MountWith(SpecRets)

\* (a variant of the effect: dependencies [ratio, resolution])
SettingsEffectNoLegend(c, ref, old, new) ==
    IF old.ratio # new.ratio \/ old.resolution # new.resolution
    THEN retrieveNewScreenShot(c, ref, "effect", Undefined, settingsOf(new))
    ELSE c

\* the effect with dependencies [ratio, resolution, legend] after a re-render
SettingsEffect(c, ref, old, new) ==
    IF settingsOf(old) # settingsOf(new)
    THEN retrieveNewScreenShot(c, ref, "effect", Undefined, settingsOf(new))
    ELSE c

\* A re-render with new props p, then the effects.  The export settings may
\* have changed; the image size, the map state and the panes are those the
\* component was mounted with.
Rerender(p) ==
    /\ phase = "mounted"
    /\ p.imageSize = props.imageSize
    /\ p.mapState = props.mapState
    /\ p.splitMaps = props.splitMaps
    /\ renderCount < MaxRenders
    /\ settingsOf(p) # settingsOf(props) => Len(calls.convertToPng) < MaxAttempts
    /\ \E ret \in RetsFor(p, FALSE, SpecRets) : Render(p, renderCount + 1, ret)
    /\ calls' = SettingsEffect(calls, plottingAreaRef, props, p)
    /\ UNCHANGED <<phase, plottingAreaRef, styleLoaded, lastDelivered, sinceSignal>>

\* Unmount: React clears the ref.  Timers and pending captures are left alone.
Unmount ==
    /\ phase = "mounted"
    /\ phase' = "unmounted"
    /\ plottingAreaRef' = "null"
    /\ UNCHANGED <<props, renderCount, memoSize, memoScale, scaleRet, memoContainers,
                   debounced, styleLoaded, calls, lastDelivered, sinceSignal>>

Panes == {memoContainers[1][i].index : i \in 1 .. Len(memoContainers[1])}

\* the map of pane i finishes (or starts again) loading its style
MapStyleLoad(i) ==
    /\ phase = "mounted"
    /\ i \in Panes
    /\ styleLoaded' = [styleLoaded EXCEPT ![i] = ~@]
    /\ UNCHANGED <<phase, props, plottingAreaRef, renderCount, memoSize, memoScale, scaleRet,
                   memoContainers, debounced, calls, lastDelivered, sinceSignal>>

\* The map view of pane i reports a completed render: it calls the
\* onMapRender of its props, the debounced function of the last render.
MapRender(i) ==
    /\ phase = "mounted"
    /\ i \in Panes
    /\ debounced' = [debounced EXCEPT ![memoContainers[1][1].props.onMapRender] =
                        debouncedCall(@, i)]
    /\ sinceSignal' = 0
    /\ UNCHANGED <<phase, props, plottingAreaRef, renderCount, memoSize, memoScale, scaleRet,
                   memoContainers, styleLoaded, calls, lastDelivered>>

\* Time passes, up to the next timer that runs out.
Armed == {r \in 1 .. Len(debounced) : debounced[r].armed}
Delta == IF \E r \in Armed : debounced[r].remaining < TickMs
         THEN CHOOSE d \in {debounced[r].remaining : r \in Armed} :
                  \A r \in Armed : d <= debounced[r].remaining
         ELSE TickMs

Tick ==
    /\ phase # "init"
    /\ Delta > 0
    /\ Armed # {} \/ sinceSignal < DEBOUNCE_DELAY_MS
    /\ debounced' = [r \in 1 .. Len(debounced) |->
                        IF debounced[r].armed
                        THEN [debounced[r] EXCEPT !.remaining = @ - Delta]
                        ELSE debounced[r]]
    /\ sinceSignal' = Min(DEBOUNCE_DELAY_MS, sinceSignal + Delta)
    /\ UNCHANGED <<phase, props, plottingAreaRef, renderCount, memoSize, memoScale, scaleRet,
                   memoContainers, styleLoaded, calls, lastDelivered>>

\* The timer of the debounced function of render r runs out: its callback
\* runs with the last map it was called with.
TimerFires(r) ==
    /\ r \in Armed
    /\ debounced[r].remaining = 0
    /\ LET map == debounced[r].lastArgs[1]
           after == onMapRenderCallback(calls, plottingAreaRef, map, settingsOf(props))
       IN  /\ after # calls => Len(calls.convertToPng) < MaxAttempts
           /\ calls' = after
    /\ debounced' = [debounced EXCEPT ![r] = trailingEdge(@)]
    /\ UNCHANGED <<phase, props, plottingAreaRef, renderCount, memoSize, memoScale, scaleRet,
                   memoContainers, styleLoaded, lastDelivered, sinceSignal>>

\* the image a capture resolves to: the picture of what the container showed
imageOf(a) == [png |-> a.shown]

\* the promise of attempt k settles, and the handlers chained on it run
Settled(k, outcome, v) ==
    /\ k \in 1 .. Len(calls.convertToPng)
    /\ calls.convertToPng[k].promise = "pending"
    /\ calls' = deliver(calls, k, outcome, v)
    /\ lastDelivered' = k
    /\ UNCHANGED <<phase, props, plottingAreaRef, renderCount, memoSize, memoScale, scaleRet,
                   memoContainers, debounced, styleLoaded, sinceSignal>>

CaptureResolves(k) ==
    /\ k \in 1 .. Len(calls.convertToPng)
    /\ Settled(k, "fulfilled", imageOf(calls.convertToPng[k]))

\* the error a capture rejects with: one error value per picture
errorOf(a) == [message |-> "tainted canvas", capturing |-> a.shown]

CaptureRejects(k) ==
    /\ k \in 1 .. Len(calls.convertToPng)
    /\ Settled(k, "rejected", errorOf(calls.convertToPng[k]))

InitWith(ps) ==
    /\ phase = "init"
    /\ props \in ps
    /\ plottingAreaRef = "undefined"
    /\ renderCount = 0
    /\ memoSize = Undefined
    /\ memoScale = Undefined
    /\ scaleRet = Undefined
    /\ memoContainers = Undefined
    /\ debounced = <<>>
    /\ styleLoaded = [i \in PaneIndexes |-> FALSE]
    /\ calls = [setExportingImage |-> 0, convertToPng |-> <<>>]
    /\ lastDelivered = 0
    /\ sinceSignal = DEBOUNCE_DELAY_MS

Init == InitWith({p \in SpecProps : settingsOf(p) = FirstSettings})

Next ==
    \/ Mount
    \/ \E p \in SpecProps : Rerender(p)
    \/ Unmount
    \/ \E i \in PaneIndexes : MapStyleLoad(i)
    \/ \E i \in PaneIndexes : MapRender(i)
    \/ Tick
    \/ \E r \in 1 .. MaxRenders : TimerFires(r)
    \/ \E k \in 1 .. MaxAttempts : CaptureResolves(k)
    \/ \E k \in 1 .. MaxAttempts : CaptureRejects(k)

Spec == Init /\ [][Next]_vars

\* The derived values for all props: the component is mounted with any props.
InitDerive == InitWith(DeriveProps)
MountDerive == MountWith(Rats)
SpecDerive == InitDerive /\ [][MountDerive]_vars

\* ================================================================ claims
Attempts == calls.convertToPng
NAttempts == Len(Attempts)
MountStep == phase = "init" /\ phase' = "mounted"
RerenderStep == phase = "mounted" /\ renderCount' = renderCount + 1
SettingsChangeStep == RerenderStep /\ settingsOf(props') # settingsOf(props)
\* the timer of render r runs out in this step
FiresIn(r) == r \in Armed /\ ~debounced'[r].armed
SettlesIn(k) == k <= NAttempts /\ Attempts[k].promise = "pending"
                /\ calls'.convertToPng[k].promise # "pending"

\* C1 as claimed: setExportingImage() is called exactly once on mount, exactly
\* once for each later change of ratio, resolution or legend, and in no other
\* step.
C1_Original ==
    [][calls'.setExportingImage =
          calls.setExportingImage
          + (IF MountStep \/ SettingsChangeStep THEN 1 ELSE 0)]_vars

\* C1 amended: setExportingImage() is called once by the mount effect and once
\* at the start of every capture attempt, and not otherwise: at any time after
\* mount it has been called 1 + (number of convertToPng calls) times; the mount
\* makes two of these calls and a later change of the settings one.
C1_Amended ==
    /\ [](calls.setExportingImage = IF phase = "init" THEN 0 ELSE 1 + NAttempts)
    /\ [][/\ MountStep => calls'.setExportingImage = 2
          /\ SettingsChangeStep => calls'.setExportingImage = calls.setExportingImage + 1]_vars

C1_Witness ==
    /\ calls.setExportingImage = 4
    /\ \E k \in 2 .. NAttempts : Attempts[k].cause = "render"
    /\ \E k \in 2 .. NAttempts : Attempts[k].cause = "effect"

\* C2: for every capture attempt whose convertToPng promise resolved,
\* setExportImageDataUri was called exactly once, with the returned image, and
\* neither setExportImageError nor addNotification was called for it.
C2_SuccessDelivered ==
    \A k \in 1 .. NAttempts :
        Attempts[k].promise = "fulfilled" =>
            /\ Attempts[k].dataUri = << imageOf(Attempts[k]) >>
            /\ Attempts[k].errors = <<>>
            /\ Attempts[k].notifications = <<>>

C2_Witness ==
    \E k \in 1 .. NAttempts :
        /\ Attempts[k].promise = "fulfilled"
        /\ Len(Attempts[k].dataUri) = 1
        /\ \E j \in 1 .. NAttempts : Attempts[j].promise = "rejected"

\* C3: for every capture attempt whose convertToPng promise rejected,
\* setExportImageError and addNotification were each called exactly once, with
\* the error of the rejection, setExportImageDataUri was not called, and the
\* promise chain ends fulfilled (the error goes no further).
C3_FailureReported ==
    \A k \in 1 .. NAttempts :
        Attempts[k].promise = "rejected" =>
            /\ Attempts[k].errors = << errorOf(Attempts[k]) >>
            /\ Len(Attempts[k].notifications) = 1
            /\ Attempts[k].notifications[1].err = Attempts[k].errors[1]
            /\ Attempts[k].dataUri = <<>>
            /\ Attempts[k].chain = "fulfilled"

C3_Witness ==
    \E k \in 1 .. NAttempts :
        /\ Attempts[k].promise = "rejected"
        /\ Len(Attempts[k].errors) = 1
        /\ Attempts[k].cause = "render"

\* C4 as claimed: a burst of render-completion signals, each less than
\* DEBOUNCE_DELAY_MS after the one before, gives one capture attempt, made for
\* the last signal once the delay has passed since it: a debounced callback
\* starts a capture only when no signal arrived in the last DEBOUNCE_DELAY_MS,
\* also when the component re-rendered during the burst.
C4_Original ==
    [][\A r \in 1 .. Len(debounced) :
          FiresIn(r) /\ Len(calls'.convertToPng) > NAttempts
              => sinceSignal >= DEBOUNCE_DELAY_MS]_vars

\* C5 as claimed: every capture attempt is made on a map's report that its
\* style is loaded.
C5_Original ==
    \A k \in 1 .. NAttempts : Attempts[k].mapLoaded = Some(TRUE)

\* C5 amended: a capture attempt made for a render-completion signal is made
\* only if the signalled map reports its style loaded when the debounce timer
\* runs out, and a signal whose map reports "not loaded" makes no call at all
\* (no convertToPng, no setExportingImage); the attempts of the settings effect
\* consult no map.
C5_Amended ==
    /\ [](\A k \in 1 .. NAttempts :
            Attempts[k].mapLoaded = IF Attempts[k].cause = "render"
                                    THEN Some(TRUE) ELSE Undefined)
    /\ [][\A r \in 1 .. Len(debounced) :
            FiresIn(r) /\ ~styleLoaded[debounced[r].lastArgs[1]] => calls' = calls]_vars

\* the callback of render 1 has run, the component is still mounted, and the
\* only attempt is the one of the mount: the callback found the style not loaded
C5_Witness ==
    /\ phase = "mounted"
    /\ debounced[1].invoked
    /\ NAttempts = 1
    /\ Attempts[1].cause = "effect"
    /\ calls.setExportingImage = 2

\* C6: after the mount, a re-render in which ratio, resolution or legend
\* changed makes exactly one more convertToPng call, for the new settings, and
\* a re-render in which none of them changed makes none.
C6_SettingsChangeCaptures ==
    [][RerenderStep =>
          calls'.convertToPng =
              IF settingsOf(props') # settingsOf(props)
              THEN Append(Attempts,
                          [cause |-> "effect", mapLoaded |-> Undefined,
                           shown |-> settingsOf(props'),
                           promise |-> "pending", chain |-> "pending",
                           dataUri |-> <<>>, errors |-> <<>>, notifications |-> <<>>])
              ELSE Attempts]_vars

C6_Witness ==
    /\ renderCount = 2
    /\ NAttempts = 2
    /\ Attempts[1].shown.legend = FALSE
    /\ Attempts[2].cause = "effect"
    /\ Attempts[2].shown = [Attempts[1].shown EXCEPT !.legend = TRUE]

\* C10: a capture in flight is never cancelled: every settled attempt had its
\* result delivered to a setter, also when a newer attempt was started or
\* delivered before it, and the step that delivers a result starts no new
\* attempt (no retry after a rejection).
C10_NoCancellation ==
    /\ [](\A k \in 1 .. NAttempts :
            Attempts[k].promise # "pending" =>
                Len(Attempts[k].dataUri) + Len(Attempts[k].errors) = 1)
    /\ [][\A k \in 1 .. NAttempts :
            SettlesIn(k) => Len(calls'.convertToPng) = NAttempts /\ lastDelivered' = k]_vars

\* the result delivered last is the picture of the first settings, after the
\* result of a newer attempt, while the component shows other settings
C10_Witness ==
    /\ NAttempts >= 2
    /\ lastDelivered = 1
    /\ Attempts[1].promise = "fulfilled"
    /\ Attempts[2].promise # "pending"
    /\ Attempts[1].dataUri[1].png # settingsOf(props)
    /\ Attempts[2].shown = settingsOf(props)

\* ------------------------------------------- claims on the derived values
Rendered == phase # "init"
Scale == memoScale[1]
Size == memoSize[1]
ImageSize == imageSizeOf(props)
\* the number of entries of splitMaps (0 when absent)
NSplitMaps == IF props.splitMaps = Undefined THEN 0 ELSE Len(props.splitMaps[1])

C8_MapViews ==
    Rendered =>
        LET views == memoContainers[1] IN
        IF NSplitMaps <= 1
        THEN /\ Len(views) = 1
             /\ views[1].index = 0
             /\ views[1].mapLayers = Undefined
        ELSE /\ Len(views) = NSplitMaps
             /\ \A i \in 1 .. NSplitMaps :
                    /\ views[i].index = i - 1
                    /\ views[i].mapLayers = Some(props.splitMaps[1][i].layers)

C8_Witness ==
    /\ Rendered
    /\ NSplitMaps = 3
    /\ Len(memoContainers[1]) = 3
    /\ memoContainers[1][3].mapLayers # memoContainers[1][1].mapLayers

\* C9: Size.width is imageW when imageW >= 1 and 1 when imageW is missing or
\* zero (imageSize missing included), and Size.height likewise from imageH.
C9_Size ==
    Rendered =>
        /\ (ImageSize.imageW # Undefined /\ ImageSize.imageW[1] >= 1)
               => Size.width = ImageSize.imageW[1]
        /\ (ImageSize.imageW = Undefined \/ ImageSize.imageW = Some(0))
               => Size.width = 1
        /\ (ImageSize.imageH # Undefined /\ ImageSize.imageH[1] >= 1)
               => Size.height = ImageSize.imageH[1]
        /\ (ImageSize.imageH = Undefined \/ ImageSize.imageH = Some(0))
               => Size.height = 1

C9_Witness ==
    /\ Rendered
    /\ ImageSize.imageW = Some(0)
    /\ ImageSize.imageH = Some(2)
    /\ Size = [width |-> 1, height |-> 2]
====
